---------------------------- MODULE Spec2Model ----------------------------
(***************************************************************************)
(* A model of monitor.py: the notice-board monitor.  One run loads the     *)
(* site list and the seen-state file, and for every site fetches the page, *)
(* extracts the rows, classifies each row against the stored dedup keys,   *)
(* posts the new ones to the Discord webhook, updates the site's entry of  *)
(* the in-memory state, and finally writes the state file once.            *)
(*                                                                         *)
(* Python values: None is the record None below, a present value v is      *)
(* Some(v).  A text is a sequence of atoms (strings), the atom " " being   *)
(* whitespace; the string it stands for is the atoms' concatenation.       *)
(***************************************************************************)
EXTENDS Integers, Sequences, FiniteSets, TLC

VARIABLES
    file,           \* .state/seen.json: [kind |-> "absent"|"corrupt"|"json", data |-> mapping]
    pc,             \* position of main(): see the actions
    max_items,      \* site.get("max_items", 20) of the site the loop is at
    INIT_MODE,      \* environment flag INIT_MODE
    DISCORD_WEBHOOK,\* TRUE when the environment sets DISCORD_WEBHOOK
    state,          \* main()'s local `state`: mapping site name -> sequence of keys
    total_new,      \* main()'s local `total_new`
    site,           \* index of the site main()'s loop is at
    items,          \* parse_and_notify: soup.select(list_selector)
    row_i,          \* parse_and_notify: index of the row the loop is at
    new_ids,        \* parse_and_notify: new_ids
    new_count,      \* parse_and_notify: new_count
    delivered,      \* history: the discord_post calls of this site pass, in order
    outcome,        \* history: how each site's pass of this run ended
    saves,          \* history: number of save_state calls of this run
    xin,            \* the studies: the inputs of the function under study
    xout            \* the studies: <<>>, then what the function made of xin

vars == <<file, pc, max_items, INIT_MODE, DISCORD_WEBHOOK, state, total_new, site,
          items, row_i, new_ids, new_count, delivered, outcome, saves, xin, xout>>

-----------------------------------------------------------------------------
(* Bounds of the model *)

NumSites == 2       \* configured sites
MaxRows == 2        \* rows a fetched page holds at most
MaxKeep == 2        \* largest configured max_items
MaxEls == 2         \* elements per row in the extraction study
MaxDates == 3       \* date elements per row in the date study

(* Program constants *)

DefaultMaxRetries == 5      \* discord_post(max_retries=5)
DefaultRetries == 3         \* fetch(retries=3)
DefaultBackoff == 20        \* fetch(backoff=2), in tenths of a second

-----------------------------------------------------------------------------
(* Python's None and present values *)

None == [some |-> FALSE]
Some(v) == [some |-> TRUE, val |-> v]

(* str(x) inside an f-string: None prints as "None" *)
PyStr(x) == IF x.some THEN x.val ELSE "None"

(* `x or ''` *)
OrEmpty(x) == IF x.some THEN x.val ELSE ""

(* Python truthiness of an optional string: None and "" are falsy *)
Truthy(x) == x.some /\ x.val # ""

-----------------------------------------------------------------------------
(* Texts *)

RECURSIVE Concat(_)
Concat(atoms) ==
    IF atoms = <<>> THEN "" ELSE Head(atoms) \o Concat(Tail(atoms))

RECURSIVE LStrip(_)
LStrip(atoms) ==
    IF atoms # <<>> /\ Head(atoms) = " " THEN LStrip(Tail(atoms)) ELSE atoms

RECURSIVE RStrip(_)
RStrip(atoms) ==
    IF atoms # <<>> /\ atoms[Len(atoms)] = " "
    THEN RStrip(SubSeq(atoms, 1, Len(atoms) - 1))
    ELSE atoms

Strip(atoms) == RStrip(LStrip(atoms))

(* str.replace(old, ""): every occurrence of the atom is removed *)
Remove(atoms, old) == SelectSeq(atoms, LAMBDA a : a # old)

(* re.sub(r"\s+", " ", s): adjacent whitespace atoms become one *)
RECURSIVE Collapse(_)
Collapse(atoms) ==
    IF Len(atoms) < 2 THEN atoms
    ELSE IF atoms[1] = " " /\ atoms[2] = " " THEN Collapse(Tail(atoms))
    ELSE <<Head(atoms)>> \o Collapse(Tail(atoms))

textnorm(atoms) == Strip(Collapse(atoms))

Contains(atoms, a) == \E k \in 1..Len(atoms) : atoms[k] = a

-----------------------------------------------------------------------------
(* Markup.  An element is [tag, text, href]; a row is [name, href, els]:   *)
(* the row's own tag name and href, and its descendants in document order. *)
(* A selector matches the elements whose tag it names.                     *)

DateLabel == "POSTED"     \* the literal label extract_date looks for

El(tag, text, href) == [tag |-> tag, text |-> text, href |-> href]
Row(name, href, els) == [name |-> name, href |-> href, els |-> els]

(* row.select(sel): the descendants matching sel, in document order *)
Select(row, sel) == SelectSeq(row.els, LAMBDA e : e.tag = sel)

(* row.select_one(sel): the first of them, or None *)
SelectOne(row, sel) ==
    IF Select(row, sel) = <<>> THEN None ELSE Some(Head(Select(row, sel)))

(* urljoin(base, href) for a base [dir, file]: an absolute href stands, a  *)
(* relative one replaces the base's last path segment.                     *)
AbsoluteHrefs == {"https://other.test/n9"}

urljoin(base, href) ==
    IF href \in AbsoluteHrefs THEN href ELSE base.dir \o href

(* The configured sites (sites.yaml), all but max_items, which main() loads *)
(* anew in every run.  Odd sites are table boards with sticky-notice rules, *)
(* even sites list anchors and leave the optional keys out.                 *)
Sites == 1..NumSites

SiteConf(s) ==
    IF s % 2 = 1
    THEN [name |-> s,
          url |-> [dir |-> "https://see.test/board/", file |-> "list.php"],
          base_url |-> Some([dir |-> "https://see.test/board/", file |-> ""]),
          title_selector |-> None,
          link_selector |-> None,
          date_selector |-> Some("td.date"),
          skip_if_selector |->
              Some(<< [base |-> "td.notice", contains |-> None],
                      [base |-> "td.num", contains |-> Some("NOTICE")] >>)]
    ELSE [name |-> s,
          url |-> [dir |-> "https://semi.test/", file |-> "notice"],
          base_url |-> None,
          title_selector |-> Some("span.title"),
          link_selector |-> None,
          date_selector |-> Some("span.hit"),
          skip_if_selector |-> None]

(* site.get(key, default) *)
Get(opt, default) == IF opt.some THEN opt.val ELSE default

-----------------------------------------------------------------------------
(* Row filters and extractors *)

(* One rule of should_skip_row against a row.  A rule "base:contains(text)" *)
(* is held split, as [base, contains |-> Some(text)]; a plain selector as   *)
(* [base, contains |-> None].                                               *)
RuleMatches(row, rule) ==
    IF rule.contains.some
    THEN \E k \in 1..Len(Select(row, rule.base)) :
            Contains(Select(row, rule.base)[k].text, rule.contains.val)
    ELSE SelectOne(row, rule.base).some

should_skip_row_never(row, conf) == FALSE

should_skip_row(row, conf) ==
    LET skip_rules == Get(conf.skip_if_selector, <<>>)
    IN  \E k \in 1..Len(skip_rules) : RuleMatches(row, skip_rules[k])

(* The first element of dlist whose normalised text holds the label *)
RECURSIVE FirstLabeled(_)
FirstLabeled(dlist) ==
    IF dlist = <<>> THEN None
    ELSE IF Contains(textnorm(Head(dlist).text), DateLabel) THEN Some(Head(dlist))
    ELSE FirstLabeled(Tail(dlist))

extract_date(row, conf) ==
    IF ~conf.date_selector.some THEN None
    ELSE LET dlist == Select(row, conf.date_selector.val)
             d == FirstLabeled(dlist)
             date_text ==
                 IF d.some
                 THEN Some(Concat(Strip(Remove(Remove(textnorm(d.val.text),
                                                      DateLabel), ":"))))
                 ELSE None
         IN  IF ~Truthy(date_text) /\ dlist # <<>>
             THEN Some(Concat(textnorm(dlist[1].text)))
             ELSE date_text

(* The dedup key of parse_and_notify: f"{link}|{date_text or ''}" *)
DedupKeyLinkOnly(link, date_text) == PyStr(link)

DedupKey(link, date_text) == PyStr(link) \o "|" \o OrEmpty(date_text)

(* What parse_and_notify reads off one row before it builds the key:      *)
(* whether the row is skipped, whether it has a title element, and its     *)
(* title, link and date_text.                                              *)
ExtractFields(row, conf) ==
    LET title_el == SelectOne(row, Get(conf.title_selector, "a"))
        link_el == SelectOne(row, Get(conf.link_selector, "a"))
        href0 == IF link_el.some THEN link_el.val.href ELSE ""
        href == IF href0 = "" /\ row.name = "a" THEN row.href ELSE href0
    IN  [skip |-> should_skip_row(row, conf),
         titled |-> title_el.some,
         title |-> IF title_el.some THEN Concat(textnorm(title_el.val.text)) ELSE "",
         link |-> IF href # ""
                  THEN Some(urljoin(Get(conf.base_url, conf.url), href))
                  ELSE None,
         date_text |-> extract_date(row, conf)]

WithKey(f, key) ==
    [skip |-> f.skip, titled |-> f.titled, title |-> f.title, link |-> f.link,
     date_text |-> f.date_text, key |-> key]

ExtractRowTitleKey(row, conf) ==
    LET f == ExtractFields(row, conf)
    IN  WithKey(f, f.title \o "|" \o OrEmpty(f.date_text))

(* The row's fields with its dedup key *)
ExtractRow(row, conf) ==
    LET f == ExtractFields(row, conf)
    IN  WithKey(f, DedupKey(f.link, f.date_text))

(* A row yields a record when it is not skipped and has a title element *)
IsRecord(rec) == ~rec.skip /\ rec.titled

-----------------------------------------------------------------------------
(* The extraction study: two rows of one site, read by ExtractRow.  Its    *)
(* rows are all the rows of at most MaxEls elements over StudyEls.         *)

StudyEls(conf) ==
    LET ttag == Get(conf.title_selector, "a")
        dtag == conf.date_selector.val
    IN  {El(ttag, <<t>>, h) : t \in {"T1", "T2"},
                              h \in IF ttag = "a" THEN {"", "v1"} ELSE {""}}
        \cup {El(dtag, d, "") : d \in {<<"D1">>,
                                       <<DateLabel, ":", " ", "D2">>,
                                       <<DateLabel, ":">>}}
        \cup {El("td.notice", <<>>, "")}

SeqsUpTo(S, n) == UNION {[1..k -> S] : k \in 0..n}

StudyRows(conf) ==
    {Row(name, href, els) :
        name \in IF Get(conf.title_selector, "a") = "a" THEN {"tr"} ELSE {"a"},
        href \in IF Get(conf.title_selector, "a") = "a" THEN {""} ELSE {"", "v1"},
        els \in SeqsUpTo(StudyEls(conf), MaxEls)}

(* The date study: rows with a title element and up to MaxDates elements  *)
(* matching the site's date_selector, their texts plain, labelled, the     *)
(* label alone, padded with whitespace, or the label after the date.       *)
DateTexts ==
    { <<"D1">>,
      <<DateLabel, ":", " ", "D2">>,
      <<DateLabel, ":">>,
      <<" ", "D3", " ", " ">>,
      <<"D4", " ", DateLabel>> }

DateRows(conf) ==
    {Row(IF Get(conf.title_selector, "a") = "a" THEN "tr" ELSE "a", "v1",
         <<El(Get(conf.title_selector, "a"), <<"T1">>, "v1")>>
             \o [k \in 1..Len(texts) |-> El(conf.date_selector.val, texts[k], "")]) :
        texts \in SeqsUpTo(DateTexts, MaxDates)}

-----------------------------------------------------------------------------
(* Discord delivery.  A response is what one SESSION.post meets: an HTTP   *)
(* status, with the retry_after of its JSON body (seconds; None when the   *)
(* body has none or is not JSON), or a raised requests exception.  A       *)
(* script gives the responses of the successive POSTs of one call.  Time   *)
(* is counted in tenths of a second.                                       *)

Resp(status, retry_after) ==
    [raises |-> FALSE, status |-> status, retry_after |-> retry_after]
Raise == [raises |-> TRUE, status |-> 0, retry_after |-> None]

Post(resp) == [ev |-> "post", resp |-> resp]
Sleep(d) == [ev |-> "sleep", d |-> d]
Log(line) == [ev |-> "log", line |-> line]

(* Lines 93-97: the wait a 429 response asks for, 1.0 s when it names none *)
RetryWaitDefault(resp) == 10

RetryWait(resp) ==
    IF resp.retry_after.some THEN 10 * resp.retry_after.val ELSE 10

(* Line 89: the statuses discord_post returns on as delivered *)
SuccessBelow400(resp) == resp.status < 400

SuccessNever(resp) == FALSE

Success(resp) == resp.status = 204 \/ resp.status < 300

(* The body of the retry loop of discord_post from attempt `attempt`       *)
(* (0-based), `trace` being what the call did so far.                      *)
RECURSIVE PostLoop(_, _, _, _)
PostLoop(script, attempt, max_retries, trace) ==
    IF attempt >= max_retries
    THEN [result |-> "failed", trace |-> Append(trace, Log("ERROR"))]
    ELSE LET resp == script[attempt + 1]
             sent == Append(trace, Post(resp))
         IN  IF resp.raises
             THEN [result |-> "raised", trace |-> sent]
             ELSE IF Success(resp)
             THEN [result |-> "ok", trace |-> Append(sent, Sleep(7))]
             ELSE IF resp.status = 429
             THEN PostLoop(script, attempt + 1, max_retries,
                           Append(sent, Sleep(RetryWait(resp) + 2)))
             ELSE PostLoop(script, attempt + 1, max_retries,
                           Append(Append(sent, Log("failed")), Sleep(8)))

(* discord_post: [result, trace], result being "skipped" (no webhook),     *)
(* "ok" (returned after a success response), "failed" (returned after the  *)
(* retries) or "raised" (an exception of SESSION.post left the call).      *)
discord_post(webhook, script, max_retries) ==
    IF ~webhook
    THEN [result |-> "skipped", trace |-> <<Log("WARN")>>]
    ELSE PostLoop(script, 0, max_retries, <<>>)

-----------------------------------------------------------------------------
(* The page fetcher.  What one SESSION.get with the decoding after it      *)
(* meets: the raw bytes with the text charset detection made of them (None *)
(* when it found no candidate), or an exception raised on the way.  Time   *)
(* is counted in tenths of a second.                                       *)

GetOk(raw, best) == [raises |-> FALSE, raw |-> raw, best |-> best, err |-> ""]
GetErr(err) == [raises |-> TRUE, raw |-> "", best |-> None, err |-> err]

Attempt(resp) == [ev |-> "get", resp |-> resp]

(* raw.decode('utf-8', errors='replace') *)
Utf8Replace(raw) == "utf8(" \o raw \o ")"

(* Lines 55-57 *)
Decode(resp) == IF resp.best.some THEN resp.best.val ELSE Utf8Replace(resp.raw)

BackoffFlat(backoff, i) == backoff

(* Line 61: the sleep after the failed attempt i (0-based) *)
Backoff(backoff, i) == backoff * (i + 1)

(* The loop of fetch from attempt i (0-based) *)
RECURSIVE FetchLoop(_, _, _, _, _, _)
FetchLoop(script, i, retries, backoff, last_err, trace) ==
    IF i >= retries
    THEN [result |-> "raised", err |-> last_err, html |-> None, trace |-> trace]
    ELSE LET resp == script[i + 1]
             got == Append(trace, Attempt(resp))
         IN  IF resp.raises
             THEN FetchLoop(script, i + 1, retries, backoff, Some(resp.err),
                            Append(got, Sleep(Backoff(backoff, i))))
             ELSE [result |-> "ok", err |-> None, html |-> Some(Decode(resp)),
                   trace |-> got]

(* fetch: [result, err, html, trace], result being "ok" (html returned) or *)
(* "raised" (last_err raised after the loop).                              *)
fetch(script, retries, backoff) == FetchLoop(script, 0, retries, backoff, None, <<>>)

-----------------------------------------------------------------------------
(* The seen-state store *)

Range(seq) == {seq[k] : k \in 1..Len(seq)}

(* state.get(name, []) *)
Entry(st, name) == IF name \in DOMAIN st THEN st[name] ELSE <<>>

(* state[name] = value *)
SetEntry(st, name, value) ==
    [n \in DOMAIN st \cup {name} |-> IF n = name THEN value ELSE st[n]]

FromKeysAll(seq) == seq

(* list(dict.fromkeys(seq)): first occurrences, in order *)
RECURSIVE FromKeys(_)
FromKeys(seq) ==
    IF seq = <<>> THEN <<>>
    ELSE LET init == FromKeys(SubSeq(seq, 1, Len(seq) - 1))
             last == seq[Len(seq)]
         IN  IF last \in Range(init) THEN init ELSE Append(init, last)

(* seq[:n] for n >= 0 *)
Take(seq, n) == SubSeq(seq, 1, IF n < Len(seq) THEN n ELSE Len(seq))

LastNHead(seq, n) == Take(seq, n)

(* seq[-n:] for n >= 0; Python reads -0 as 0, so seq[-0:] is all of seq *)
LastN(seq, n) ==
    IF n = 0 \/ n >= Len(seq) THEN seq
    ELSE SubSeq(seq, Len(seq) - n + 1, Len(seq))

(* The new entry of a site: lines 199-201 of parse_and_notify *)
Updated(old, ids, keep) == LastN(FromKeys(old \o ids), keep)

-----------------------------------------------------------------------------
(* What the outside gives a run: the pages a fetch may return and the      *)
(* scripts the webhook may follow.                                         *)

MainRows(s) ==
    IF s % 2 = 1
    THEN { Row("tr", "", <<El("a", <<"T1">>, "v1"), El("td.date", <<"D1">>, "")>>),
           Row("tr", "", <<El("a", <<"T2">>, "v2"), El("td.date", <<"D1">>, "")>>),
           Row("tr", "", <<El("a", <<"T3">>, ""), El("td.date", <<"D2">>, "")>>),
           Row("tr", "", <<El("td.notice", <<>>, ""), El("a", <<"T4">>, "v4")>>),
           Row("tr", "", <<El("td.num", <<"NOTICE">>, ""), El("a", <<"T5">>, "v5")>>) }
    ELSE { Row("a", "v1", <<El("span.title", <<"T1">>, ""),
                            El("span.hit", <<DateLabel, ":", " ", "D1">>, "")>>),
           Row("a", "", <<El("span.title", <<"T3">>, ""),
                          El("span.hit", <<"D2">>, "")>>),
           Row("a", "v4", <<>>) }

Pages(s) == SeqsUpTo(MainRows(s), MaxRows)

ConstScript(resp) == [k \in 1..DefaultMaxRetries |-> resp]

MainScripts ==
    { ConstScript(Resp(204, None)),
      ConstScript(Resp(500, None)),
      ConstScript(Resp(429, Some(2))),
      ConstScript(Raise) }

-----------------------------------------------------------------------------
(* The run: main() and parse_and_notify *)

NoOutcome == [kind |-> "none"]

(* for row in items[: site.get("max_items", 20)] *)
Scanned == Take(items, max_items)

(* seen = set(state.get(site["name"], [])) *)
seen == Range(Entry(state, site))

Rec == ExtractRow(items[row_i], SiteConf(site))

Idle ==
    /\ max_items = 0
    /\ INIT_MODE = FALSE
    /\ DISCORD_WEBHOOK = FALSE
    /\ state = <<>>
    /\ total_new = 0
    /\ site = 0
    /\ items = <<>>
    /\ row_i = 0
    /\ new_ids = <<>>
    /\ new_count = 0
    /\ delivered = <<>>
    /\ outcome = [s \in Sites |-> NoOutcome]
    /\ saves = 0

Init ==
    /\ pc = "start"
    /\ file \in {[kind |-> "absent", data |-> <<>>], [kind |-> "corrupt", data |-> <<>>]}
    /\ Idle
    /\ xin = <<>>
    /\ xout = <<>>

(* Process start: the environment flags (lines 19-20) and load_sites().   *)
(* INIT_MODE set, the webhook is never read, so one case stands for both. *)
(* Each site's max_items is drawn where the loop over the sites reads the *)
(* site, in BeginSite.                                                     *)
LoadSites ==
    /\ pc = "start"
    /\ \E flags \in {<<TRUE, TRUE>>, <<FALSE, TRUE>>, <<FALSE, FALSE>>} :
          /\ INIT_MODE' = flags[1]
          /\ DISCORD_WEBHOOK' = flags[2]
    /\ pc' = "load_state"
    /\ UNCHANGED <<file, max_items, state, total_new, site, items, row_i, new_ids,
                   new_count, delivered, outcome, saves, xin, xout>>

(* load_state() when the file is absent or holds JSON *)
LoadState ==
    /\ pc = "load_state"
    /\ file.kind # "corrupt"
    /\ state' = IF file.kind = "json" THEN file.data ELSE <<>>
    /\ total_new' = 0
    /\ site' = 1
    /\ pc' = "site"
    /\ UNCHANGED <<file, max_items, INIT_MODE, DISCORD_WEBHOOK, items, row_i, new_ids,
                   new_count, delivered, outcome, saves, xin, xout>>

(* load_state() when json.load raises: nothing in main() catches it *)
LoadStateRaises ==
    /\ pc = "load_state"
    /\ file.kind = "corrupt"
    /\ pc' = "crashed"
    /\ UNCHANGED <<file, max_items, INIT_MODE, DISCORD_WEBHOOK, state, total_new, site,
                   items, row_i, new_ids, new_count, delivered, outcome, saves, xin, xout>>

ExceptUncaught(why) ==
    /\ outcome' = [outcome EXCEPT ![site] = [kind |-> "error", why |-> why]]
    /\ pc' = "crashed"

(* An exception leaves parse_and_notify for main()'s except branch *)
Except(why) ==
    /\ outcome' = [outcome EXCEPT ![site] = [kind |-> "error", why |-> why]]
    /\ pc' = "returned"

(* `for site in sites`: the next site of the loaded list *)
BeginSite ==
    /\ pc = "site"
    /\ site <= NumSites
    /\ \E m \in 0..MaxKeep : max_items' = m
    /\ pc' = "fetch"
    /\ UNCHANGED <<file, INIT_MODE, DISCORD_WEBHOOK, state, total_new, site, items,
                   row_i, new_ids, new_count, delivered, outcome, saves, xin, xout>>

FetchFailsDropsEntry ==
    /\ pc = "fetch"
    /\ Except("fetch")
    /\ state' = SetEntry(state, site, <<>>)
    /\ UNCHANGED <<file, max_items, INIT_MODE, DISCORD_WEBHOOK, total_new, site,
                   items, row_i, new_ids, new_count, delivered, saves, xin, xout>>

(* parse_and_notify: fetch raises after its retries *)
FetchFails ==
    /\ pc = "fetch"
    /\ Except("fetch")
    /\ UNCHANGED <<file, max_items, INIT_MODE, DISCORD_WEBHOOK, state, total_new, site,
                   items, row_i, new_ids, new_count, delivered, saves, xin, xout>>

(* parse_and_notify: the page has no row matching list_selector; return 0 *)
NoItems ==
    /\ pc = "fetch"
    /\ <<>> \in Pages(site)
    /\ outcome' = [outcome EXCEPT ![site] = [kind |-> "empty"]]
    /\ pc' = "returned"
    /\ UNCHANGED <<file, max_items, INIT_MODE, DISCORD_WEBHOOK, state, total_new, site,
                   items, row_i, new_ids, new_count, delivered, saves, xin, xout>>

(* parse_and_notify: the page has rows; lines 147-154 *)
FetchItems ==
    /\ pc = "fetch"
    /\ \E page \in Pages(site) :
          /\ page # <<>>
          /\ items' = page
    /\ row_i' = 1
    /\ pc' = "rows"
    /\ UNCHANGED <<file, max_items, INIT_MODE, DISCORD_WEBHOOK, state, total_new, site,
                   new_ids, new_count, delivered, outcome, saves, xin, xout>>

(* The loop body ends in `continue` *)
Continue ==
    /\ row_i' = row_i + 1
    /\ UNCHANGED <<file, pc, max_items, INIT_MODE, DISCORD_WEBHOOK, state, total_new,
                   site, items, new_ids, new_count, delivered, outcome, saves, xin, xout>>

AtRow == pc = "rows" /\ row_i <= Len(Scanned)

(* lines 158-159 *)
RowSkipped ==
    /\ AtRow
    /\ Rec.skip
    /\ Continue

(* lines 162-164 *)
RowUntitled ==
    /\ AtRow
    /\ ~Rec.skip
    /\ ~Rec.titled
    /\ Continue

(* lines 186-188 *)
RowSeen ==
    /\ AtRow
    /\ IsRecord(Rec)
    /\ Rec.key \in seen
    /\ Continue

(* lines 195-196, after the notification `how` *)
Record(how) ==
    /\ delivered' = Append(delivered, [row |-> row_i, key |-> Rec.key, result |-> how])
    /\ new_ids' = Append(new_ids, Rec.key)
    /\ new_count' = new_count + 1
    /\ row_i' = row_i + 1
    /\ UNCHANGED <<file, pc, max_items, INIT_MODE, DISCORD_WEBHOOK, state, total_new,
                   site, items, outcome, saves, xin, xout>>

IsNew == AtRow /\ IsRecord(Rec) /\ Rec.key \notin seen

(* lines 192-196: INIT_MODE prints instead of posting *)
RowNewInit ==
    /\ IsNew
    /\ INIT_MODE
    /\ Record("init")

(* lines 190-196: discord_post returns *)
RowNewPosted ==
    /\ IsNew
    /\ ~INIT_MODE
    /\ \E script \in MainScripts :
          LET r == discord_post(DISCORD_WEBHOOK, script, DefaultMaxRetries)
          IN  /\ r.result # "raised"
              /\ Record(r.result)

(* line 191: SESSION.post raises inside discord_post; main() catches it *)
RowNewRaises ==
    /\ IsNew
    /\ ~INIT_MODE
    /\ \E script \in MainScripts :
          discord_post(DISCORD_WEBHOOK, script, DefaultMaxRetries).result = "raised"
    /\ delivered' = Append(delivered,
                           [row |-> row_i, key |-> Rec.key, result |-> "raised"])
    /\ Except("post")
    /\ UNCHANGED <<file, max_items, INIT_MODE, DISCORD_WEBHOOK, state, total_new, site,
                   items, row_i, new_ids, new_count, saves, xin, xout>>

(* lines 198-203: the state update, and the return of new_count *)
UpdateState ==
    /\ pc = "rows"
    /\ row_i > Len(Scanned)
    /\ LET keep == max_items
           updated == Updated(Entry(state, site), new_ids, keep)
       IN  /\ state' = SetEntry(state, site, updated)
           /\ outcome' = [outcome EXCEPT ![site] = [kind |-> "ok", entry |-> updated]]
    /\ pc' = "returned"
    /\ UNCHANGED <<file, max_items, INIT_MODE, DISCORD_WEBHOOK, total_new, site, items,
                   row_i, new_ids, new_count, delivered, saves, xin, xout>>

NextSiteSaving ==
    /\ pc = "returned"
    /\ total_new' = total_new + (IF outcome[site].kind = "ok" THEN new_count ELSE 0)
    /\ site' = site + 1
    /\ items' = <<>>
    /\ row_i' = 0
    /\ new_ids' = <<>>
    /\ new_count' = 0
    /\ delivered' = <<>>
    /\ max_items' = 0
    /\ pc' = "site"
    /\ file' = [kind |-> "json", data |-> state]
    /\ UNCHANGED <<INIT_MODE, DISCORD_WEBHOOK, state, outcome, saves, xin, xout>>

(* main()'s lines 211-215: parse_and_notify is left, its locals are gone;  *)
(* the returned count is added, or the exception logged; the next site.    *)
NextSite ==
    /\ pc = "returned"
    /\ total_new' = total_new + (IF outcome[site].kind = "ok" THEN new_count ELSE 0)
    /\ site' = site + 1
    /\ items' = <<>>
    /\ row_i' = 0
    /\ new_ids' = <<>>
    /\ new_count' = 0
    /\ delivered' = <<>>
    /\ max_items' = 0
    /\ pc' = "site"
    /\ UNCHANGED <<file, INIT_MODE, DISCORD_WEBHOOK, state, outcome, saves, xin, xout>>

(* save_state(state), after the loop over the sites *)
SaveState ==
    /\ pc = "site"
    /\ site > NumSites
    /\ file' = [kind |-> "json", data |-> state]
    /\ saves' = saves + 1
    /\ pc' = "done"
    /\ UNCHANGED <<max_items, INIT_MODE, DISCORD_WEBHOOK, state, total_new, site, items,
                   row_i, new_ids, new_count, delivered, outcome, xin, xout>>

(* The process has ended; the schedule starts the next run *)
NextRun ==
    /\ pc \in {"done", "crashed"}
    /\ pc' = "start"
    /\ max_items' = 0
    /\ INIT_MODE' = FALSE
    /\ DISCORD_WEBHOOK' = FALSE
    /\ state' = <<>>
    /\ total_new' = 0
    /\ site' = 0
    /\ items' = <<>>
    /\ row_i' = 0
    /\ new_ids' = <<>>
    /\ new_count' = 0
    /\ delivered' = <<>>
    /\ outcome' = [s \in Sites |-> NoOutcome]
    /\ saves' = 0
    /\ UNCHANGED <<file, xin, xout>>

Next ==
    \/ LoadSites
    \/ LoadState
    \/ LoadStateRaises
    \/ BeginSite
    \/ FetchFails
    \/ NoItems
    \/ FetchItems
    \/ RowSkipped
    \/ RowUntitled
    \/ RowSeen
    \/ RowNewInit
    \/ RowNewPosted
    \/ RowNewRaises
    \/ UpdateState
    \/ NextSite
    \/ SaveState
    \/ NextRun

Spec == Init /\ [][Next]_vars

-----------------------------------------------------------------------------
(* The extraction study: ExtractRow on two rows of one site *)

XInit ==
    /\ pc = "extract"
    /\ file = [kind |-> "absent", data |-> <<>>]
    /\ Idle
    /\ \E s \in Sites :
          \E a \in StudyRows(SiteConf(s)), b \in StudyRows(SiteConf(s)) :
             xin = [site |-> s, a |-> a, b |-> b]
    /\ xout = <<>>

XExtract ==
    /\ pc = "extract"
    /\ xout = <<>>
    /\ xout' = <<ExtractRow(xin.a, SiteConf(xin.site)),
                 ExtractRow(xin.b, SiteConf(xin.site))>>
    /\ UNCHANGED <<file, pc, max_items, INIT_MODE, DISCORD_WEBHOOK, state, total_new,
                   site, items, row_i, new_ids, new_count, delivered, outcome, saves,
                   xin>>

XSpec == XInit /\ [][XExtract]_vars

(* The date study: ExtractRow on one row with several date elements *)

EInit ==
    /\ pc = "date"
    /\ file = [kind |-> "absent", data |-> <<>>]
    /\ Idle
    /\ \E s \in Sites :
          \E row \in DateRows(SiteConf(s)) : xin = [site |-> s, row |-> row]
    /\ xout = <<>>

EExtract ==
    /\ pc = "date"
    /\ xout = <<>>
    /\ xout' = <<ExtractRow(xin.row, SiteConf(xin.site))>>
    /\ UNCHANGED <<file, pc, max_items, INIT_MODE, DISCORD_WEBHOOK, state, total_new,
                   site, items, row_i, new_ids, new_count, delivered, outcome, saves,
                   xin>>

ESpec == EInit /\ [][EExtract]_vars

(* The fetch study: fetch against every script of the attempts' outcomes *)

GetOutcomes ==
    { GetOk("b1", Some("page1")), GetOk("b2", None),
      GetErr("timeout"), GetErr("connection"), GetErr("decode") }

FInit ==
    /\ pc = "fetching"
    /\ file = [kind |-> "absent", data |-> <<>>]
    /\ Idle
    /\ \E script \in [1..DefaultRetries -> GetOutcomes] : xin = [script |-> script]
    /\ xout = <<>>

FFetch ==
    /\ pc = "fetching"
    /\ xout = <<>>
    /\ xout' = <<fetch(xin.script, DefaultRetries, DefaultBackoff)>>
    /\ UNCHANGED <<file, pc, max_items, INIT_MODE, DISCORD_WEBHOOK, state, total_new,
                   site, items, row_i, new_ids, new_count, delivered, outcome, saves,
                   xin>>

FSpec == FInit /\ [][FFetch]_vars

(* The delivery study: discord_post against every script of the responses  *)

Responses ==
    { Resp(200, None), Resp(204, None), Resp(302, None), Resp(429, None),
      Resp(429, Some(2)), Resp(500, None), Raise }

DInit ==
    /\ pc = "deliver"
    /\ file = [kind |-> "absent", data |-> <<>>]
    /\ Idle
    /\ \E webhook \in BOOLEAN, script \in [1..DefaultMaxRetries -> Responses] :
          xin = [webhook |-> webhook, script |-> script]
    /\ xout = <<>>

DDeliver ==
    /\ pc = "deliver"
    /\ xout = <<>>
    /\ xout' = <<discord_post(xin.webhook, xin.script, DefaultMaxRetries)>>
    /\ UNCHANGED <<file, pc, max_items, INIT_MODE, DISCORD_WEBHOOK, state, total_new,
                   site, items, row_i, new_ids, new_count, delivered, outcome, saves,
                   xin>>

DSpec == DInit /\ [][DDeliver]_vars

-----------------------------------------------------------------------------
(* A site pass in INIT_MODE as one function of the stored entry, the page  *)
(* and the site: lines 147-203 with line 193 for the notification.         *)

RECURSIVE NewIdsOf(_, _, _)
NewIdsOf(rows, seenKeys, conf) ==
    IF rows = <<>> THEN <<>>
    ELSE LET rec == ExtractRow(Head(rows), conf)
             rest == NewIdsOf(Tail(rows), seenKeys, conf)
         IN  IF IsRecord(rec) /\ rec.key \notin seenKeys
             THEN <<rec.key>> \o rest
             ELSE rest

InitPass(entry, page, keep, conf) ==
    IF page = <<>>
    THEN [entry |-> entry, cnt |-> 0]
    ELSE LET ids == NewIdsOf(Take(page, keep), Range(entry), conf)
         IN  [entry |-> Updated(entry, ids, keep), cnt |-> Len(ids)]

(* The state load_state() returned to this run; the file is not written   *)
(* before the run's save_state.                                            *)
Loaded == IF file.kind = "json" THEN file.data ELSE <<>>

PassEnded == pc = "returned"
PassOk == PassEnded /\ outcome[site].kind = "ok"

-----------------------------------------------------------------------------
(* Properties *)

(* C1. Idempotence: a pass that has stored its entry, run again on the     *)
(* same page with the state as stored, finds no new record.  Stated for    *)
(* the passes whose loaded entry is within the site's max_items.           *)
Idempotent ==
    (PassOk /\ Len(Entry(Loaded, site)) <= max_items)
        => InitPass(Entry(state, site), items, max_items, SiteConf(site)).cnt = 0

(* C2. Retention bound: the entry a site pass stores is no longer than the *)
(* site's max_items, for every max_items from 0 on.                        *)
RetentionBound ==
    PassOk => Len(Entry(state, site)) <= max_items

(* C3 as claimed. Two records with the same resolved link have the same    *)
(* dedup key, whatever their titles and date texts.                        *)
XExtracted == pc = "extract" /\ xout # <<>>
XBothRecords == XExtracted /\ IsRecord(xout[1]) /\ IsRecord(xout[2])
XSameLink == XBothRecords /\ xout[1].link.some /\ xout[1].link = xout[2].link

MatchesSkipRule(row, conf) ==
    /\ conf.skip_if_selector.some
    /\ \E rule \in Range(conf.skip_if_selector.val), e \in Range(row.els) :
          /\ e.tag = rule.base
          /\ rule.contains.some => rule.contains.val \in Range(e.text)

Counted == SelectSeq(delivered, LAMBDA d : d.result # "raised")

StickySkip ==
    pc \in {"rows", "returned"} =>
        /\ \A k \in 1..Len(delivered) :
              ~MatchesSkipRule(items[delivered[k].row], SiteConf(site))
        /\ new_count = Len(Counted)
        /\ new_ids = [k \in 1..Len(Counted) |-> Counted[k].key]
        /\ PassOk =>
              Range(Entry(state, site))
                  \subseteq Range(Entry(Loaded, site)) \cup Range(new_ids)

StickyRowPassed ==
    /\ PassOk
    /\ Entry(Loaded, site) = <<>>
    /\ Len(Scanned) = 2
    /\ MatchesSkipRule(items[1], SiteConf(site))
    /\ new_count = 1
    /\ Len(Entry(state, site)) = 1

(* C5. Isolation: a run in which a site's fetch failed still processes     *)
(* every other site and saves once, the file holding the entry every       *)
(* successful pass stored.                                                 *)
FetchFailed(s) == outcome[s] = [kind |-> "error", why |-> "fetch"]

Isolation ==
    (pc \in {"done", "crashed"} /\ \E s \in Sites : FetchFailed(s)) =>
        /\ pc = "done"
        /\ saves = 1
        /\ file.kind = "json"
        /\ \A t \in Sites :
              /\ outcome[t].kind # "none"
              /\ outcome[t].kind = "ok" =>
                    /\ t \in DOMAIN file.data
                    /\ file.data[t] = outcome[t].entry

OneFailedOtherSaved ==
    /\ pc = "done"
    /\ FetchFailed(1)
    /\ outcome[2].kind = "ok"
    /\ file.data[2] # <<>>

(* C6. A record whose delivery failed (error responses to the last retry)  *)
(* has its key in the site's stored entry when the site's pass ends.       *)
FailedStillSeen ==
    PassEnded =>
        \A k \in 1..Len(delivered) :
            delivered[k].result = "failed"
                => delivered[k].key \in Range(Entry(state, site))

(* C7. Rate-limit retry: after a 429 response with retry_after = 2 the     *)
(* next POST of the call comes at least 2 s later, and when that POST      *)
(* meets a 2xx response the call returns as delivered with nothing logged  *)
(* from the 429 on.                                                        *)
DDelivered == pc = "deliver" /\ xout # <<>>

IsPostAt(tr, k) == tr[k].ev = "post"

Is429After2(tr, k) ==
    /\ IsPostAt(tr, k)
    /\ ~tr[k].resp.raises
    /\ tr[k].resp.status = 429
    /\ tr[k].resp.retry_after = Some(2)

IsNextPost(tr, k, j) ==
    /\ j > k
    /\ IsPostAt(tr, j)
    /\ \A i \in (k + 1)..(j - 1) : ~IsPostAt(tr, i)

RECURSIVE Slept(_, _, _)
Slept(tr, k, j) ==
    IF k >= j THEN 0
    ELSE (IF tr[k].ev = "sleep" THEN tr[k].d ELSE 0) + Slept(tr, k + 1, j)

Is2xx(resp) == ~resp.raises /\ resp.status >= 200 /\ resp.status < 300

RateLimitRetry ==
    DDelivered =>
        LET tr == xout[1].trace
        IN  \A k \in 1..Len(tr), j \in 1..Len(tr) :
                (Is429After2(tr, k) /\ IsNextPost(tr, k, j)) =>
                    /\ Slept(tr, k, j) >= 20
                    /\ Is2xx(tr[j].resp) =>
                          /\ xout[1].result = "ok"
                          /\ \A i \in k..Len(tr) : tr[i].ev # "log"

RetriedAndDelivered ==
    /\ DDelivered
    /\ xout[1].result = "ok"
    /\ xout[1].trace = <<Post(Resp(429, Some(2))), Sleep(22),
                         Post(Resp(200, None)), Sleep(7)>>

(* C8. Dry-run equivalence: a site pass with real delivery ends with the   *)
(* entry and the count the same pass ends with in INIT_MODE.               *)
ReturnedCount == IF PassOk THEN new_count ELSE 0

DryRunEquivalent ==
    (PassEnded /\ ~INIT_MODE /\ items # <<>>) =>
        LET dry == InitPass(Entry(Loaded, site), items, max_items, SiteConf(site))
        IN  /\ Entry(state, site) = dry.entry
            /\ ReturnedCount = dry.cnt

(* C9. Corrupt state recovery: a run never ends on the error of reading a  *)
(* state file that is no valid JSON.                                       *)
CorruptRecovers ==
    file.kind = "corrupt" => pc # "crashed"

(* C10. Dedup key fallback: two records without a link and with different  *)
(* titles have different dedup keys.                                       *)
LinklessKeysByTitle ==
    (/\ XBothRecords
     /\ ~xout[1].link.some
     /\ ~xout[2].link.some
     /\ xout[1].title # xout[2].title)
        => xout[1].key # xout[2].key

(* C11 as claimed. Delivery success threshold: a response with a status    *)
(* below 400 (2xx or 3xx) ends the call as delivered: no later POST and no *)
(* logged line follow it.                                                  *)
AnsweredAt(tr, k) == IsPostAt(tr, k) /\ ~tr[k].resp.raises

NothingAfter(tr, k) ==
    \A i \in (k + 1)..Len(tr) : tr[i].ev \notin {"post", "log"}

Below400Delivers ==
    DDelivered =>
        LET tr == xout[1].trace
        IN  \A k \in 1..Len(tr) :
                (AnsweredAt(tr, k) /\ tr[k].resp.status < 400) => NothingAfter(tr, k)

(* C11 as amended. A response with a status below 300 ends the call as     *)
(* delivered: no later POST and no logged line follow it.  A 3xx response  *)
(* is no success: the failure is logged, the call sleeps 0.8 s and then    *)
(* posts again or, the attempts used up, logs the final error.             *)
Below300Delivers ==
    DDelivered =>
        LET tr == xout[1].trace
        IN  \A k \in 1..Len(tr) :
                AnsweredAt(tr, k) =>
                    /\ tr[k].resp.status < 300 =>
                          /\ NothingAfter(tr, k)
                          /\ xout[1].result = "ok"
                    /\ (tr[k].resp.status >= 300 /\ tr[k].resp.status < 400) =>
                          /\ Len(tr) >= k + 3
                          /\ tr[k + 1] = Log("failed")
                          /\ tr[k + 2] = Sleep(8)
                          /\ IsPostAt(tr, k + 3) \/ tr[k + 3] = Log("ERROR")

RedirectRetried ==
    /\ DDelivered
    /\ xout[1].result = "ok"
    /\ xout[1].trace = <<Post(Resp(302, None)), Log("failed"), Sleep(8),
                         Post(Resp(204, None)), Sleep(7)>>

(* C12. No duplicates in state: the state starting without duplicates, no  *)
(* site's key sequence, in memory or in the file, ever holds a key twice,  *)
(* also after a pass whose page gave the same new key more than once.      *)
NoDup(seq) == \A i \in 1..Len(seq), j \in 1..Len(seq) : i # j => seq[i] # seq[j]

NoDuplicateKeys ==
    /\ \A s \in DOMAIN state : NoDup(state[s])
    /\ \A s \in DOMAIN Loaded : NoDup(Loaded[s])

RepeatedKeyStoredOnce ==
    /\ PassOk
    /\ Entry(Loaded, site) # <<>>
    /\ Len(new_ids) = 2
    /\ new_ids[1] = new_ids[2]
    /\ Entry(state, site) = Entry(Loaded, site) \o <<new_ids[1]>>

(* C13. FIFO order: the entry a pass stores lists its keys in the order    *)
(* `old keys as they were stored, then new keys as they were discovered',  *)
(* and every key the truncation removed comes before every key it kept in  *)
(* that order.                                                             *)
FirstAt(seq, x) == CHOOSE k \in 1..Len(seq) : seq[k] = x /\ \A i \in 1..(k - 1) : seq[i] # x

Rank(old, new, x) ==
    IF x \in Range(old) THEN FirstAt(old, x) ELSE Len(old) + FirstAt(new, x)

FifoOrder ==
    PassOk =>
        LET old == Entry(Loaded, site)
            kept == Entry(state, site)
            removed == (Range(old) \cup Range(new_ids)) \ Range(kept)
        IN  /\ Range(kept) \subseteq Range(old) \cup Range(new_ids)
            /\ \A i \in 1..Len(kept), j \in 1..Len(kept) :
                  i < j => Rank(old, new_ids, kept[i]) < Rank(old, new_ids, kept[j])
            /\ \A r \in removed, k \in Range(kept) :
                  Rank(old, new_ids, r) < Rank(old, new_ids, k)

OldestEvicted ==
    /\ PassOk
    /\ Len(Entry(Loaded, site)) = 2
    /\ Len(new_ids) = 1
    /\ max_items = 2
    /\ Entry(state, site) = <<Entry(Loaded, site)[2], new_ids[1]>>

(* C14. Single end-of-run persist: the state file changes only in the step *)
(* that ends the run after the last site; a run that has ended normally    *)
(* has written once and has processed every site, any other point of a run *)
(* has written nothing, so the file still is what the run loaded.          *)
AllSitesProcessed == \A s \in Sites : outcome[s].kind # "none"

SinglePersist ==
    /\ [](/\ saves <= 1
          /\ saves = 1 <=> pc = "done"
          /\ pc = "done" => AllSitesProcessed /\ file = [kind |-> "json", data |-> state])
    /\ [][file' # file =>
             /\ pc = "site"
             /\ site > NumSites
             /\ AllSitesProcessed
             /\ saves = 0
             /\ pc' = "done"]_vars

PersistedOnceAtEnd ==
    /\ pc = "done"
    /\ saves = 1
    /\ \A s \in Sites :
          /\ outcome[s].kind = "ok"
          /\ outcome[s].entry # <<>>
          /\ file.data[s] = outcome[s].entry

(* C15. Fetch failure frame: a site whose fetch failed keeps, in memory    *)
(* until the run ends and in the file the run writes, the entry the run    *)
(* loaded for it (or stays absent), and adds nothing to total_new.         *)
SameEntry(a, b, s) ==
    /\ s \in DOMAIN a <=> s \in DOMAIN b
    /\ Entry(a, s) = Entry(b, s)

FetchFailureFrame ==
    /\ [](\A s \in Sites : FetchFailed(s) => SameEntry(state, Loaded, s))
    /\ [][/\ \A s \in Sites : FetchFailed(s) => SameEntry(Loaded', Loaded, s)
          /\ (pc = "returned" /\ FetchFailed(site)) => total_new' = total_new]_vars

FailedSiteKept ==
    /\ pc = "done"
    /\ FetchFailed(1)
    /\ 1 \in DOMAIN file.data
    /\ file.data[1] # <<>>
    /\ total_new > 0

(* C16. Bounded delivery: the webhook set and every POST answered with an  *)
(* HTTP status, the call posts the responses' script in order, at most     *)
(* max_retries times, makes no POST after the first 2xx response, and      *)
(* returns (delivered or failed) instead of raising.                       *)
AllStatuses(script) == \A k \in DOMAIN script : ~script[k].raises

Posts(tr) == SelectSeq(tr, LAMBDA e : e.ev = "post")

BoundedDelivery ==
    (DDelivered /\ xin.webhook /\ AllStatuses(xin.script)) =>
        LET posts == Posts(xout[1].trace)
            n == Len(posts)
        IN  /\ n >= 1
            /\ n <= DefaultMaxRetries
            /\ \A k \in 1..n : posts[k].resp = xin.script[k]
            /\ \A k \in 1..(n - 1) : ~Is2xx(posts[k].resp)
            /\ n < DefaultMaxRetries => Is2xx(posts[n].resp)
            /\ xout[1].result \in {"ok", "failed"}
            /\ xout[1].result = "ok" <=> Is2xx(posts[n].resp)

RetriesUsedUp ==
    /\ DDelivered
    /\ xin.webhook
    /\ AllStatuses(xin.script)
    /\ xout[1].result = "failed"
    /\ Len(Posts(xout[1].trace)) = DefaultMaxRetries
    /\ \E k \in DOMAIN xin.script : xin.script[k].status = 429
    /\ \E k \in DOMAIN xin.script : xin.script[k].status = 500
    /\ \E k \in DOMAIN xin.script : xin.script[k].status = 302

(* C17. Labeled-date preference: of several elements matching the          *)
(* date_selector, the record's date_text is the normalised text of the     *)
(* first one that holds the label, the label and the colons removed and    *)
(* the rest trimmed; the first element's text only when none holds the     *)
(* label.                                                                  *)
EExtracted == pc = "date" /\ xout # <<>>

Labeled(dlist) == {k \in 1..Len(dlist) : Contains(textnorm(dlist[k].text), DateLabel)}

Unlabel(text) == Concat(Strip(Remove(Remove(textnorm(text), DateLabel), ":")))

LabeledDatePreferred ==
    EExtracted =>
        LET dlist == Select(xin.row, SiteConf(xin.site).date_selector.val)
            first == CHOOSE k \in Labeled(dlist) : \A j \in Labeled(dlist) : k <= j
        IN  (IsRecord(xout[1]) /\ Len(dlist) >= 2) =>
                IF Labeled(dlist) # {}
                THEN xout[1].date_text = Some(Unlabel(dlist[first].text))
                ELSE xout[1].date_text = Some(Concat(textnorm(dlist[1].text)))

(* C18. Fetch retry: fetch makes the attempts of the script in order, at   *)
(* most `retries` of them and none after the first that succeeds, whose    *)
(* decoded content it returns; after the k-th failed attempt it sleeps     *)
(* backoff * k; it raises, the error of the last attempt, only when all    *)
(* `retries` attempts failed.                                              *)
FFetched == pc = "fetching" /\ xout # <<>>

Gets(tr) == SelectSeq(tr, LAMBDA e : e.ev = "get")

FetchRetry ==
    FFetched =>
        LET tr == xout[1].trace
            n == Len(Gets(tr))
            script == xin.script
        IN  /\ n >= 1
            /\ n <= DefaultRetries
            /\ \A k \in 1..n :
                  /\ tr[2 * k - 1] = Attempt(script[k])
                  /\ script[k].raises =>
                        /\ Len(tr) >= 2 * k
                        /\ tr[2 * k] = Sleep(DefaultBackoff * k)
            /\ \A k \in 1..(n - 1) : script[k].raises
            /\ ~script[n].raises =>
                  /\ Len(tr) = 2 * n - 1
                  /\ xout[1].result = "ok"
                  /\ xout[1].html =
                        Some(IF script[n].best.some THEN script[n].best.val
                             ELSE Utf8Replace(script[n].raw))
            /\ xout[1].result = "raised" <=>
                  (n = DefaultRetries /\ \A k \in 1..DefaultRetries : script[k].raises)
            /\ xout[1].result = "raised" =>
                  xout[1].err = Some(script[DefaultRetries].err)

ThirdAttemptSucceeds ==
    /\ FFetched
    /\ xout[1].result = "ok"
    /\ xout[1].html = Some(Utf8Replace("b2"))
    /\ xout[1].trace = <<Attempt(GetErr("timeout")), Sleep(20),
                         Attempt(GetErr("connection")), Sleep(40),
                         Attempt(GetOk("b2", None))>>

(* C19. Within one site pass of a run that delivers (webhook set, no       *)
(* INIT_MODE) no dedup key is notified twice, and no more new items are    *)
(* counted than there are distinct notified keys.                          *)
OneNotificationPerKey ==
    (pc \in {"rows", "returned"} /\ DISCORD_WEBHOOK /\ ~INIT_MODE) =>
        /\ \A i \in 1..Len(delivered), j \in 1..Len(delivered) :
              i # j => delivered[i].key # delivered[j].key
        /\ new_count <= Cardinality({delivered[k].key : k \in 1..Len(delivered)})

(* C20. Every record a notification POST was sent for (answered with a     *)
(* success or with errors to the last retry) has its key in the site's     *)
(* entry when the site's pass has ended, however it ended; that entry is   *)
(* what the run's save_state writes for the site.                          *)
NotifiedKeysPersisted ==
    PassEnded =>
        \A k \in 1..Len(delivered) :
            delivered[k].result \in {"ok", "failed"}
                => delivered[k].key \in Range(Entry(state, site))

=============================================================================
